---- MODULE Spec2Model ----
(***************************************************************************)
(* Model of essayxblock.js: the EssayXBlock widget.                        *)
(*                                                                         *)
(* Three specifications live in this module.                               *)
(*   Spec        the widget as an event-driven state machine: text input,  *)
(*               cut/paste, the submit click handler and the done/fail/    *)
(*               always callbacks of its $.ajax request.  The system       *)
(*               clipboard is outside the widget: the copy button writes   *)
(*               only to it, which is a stuttering step of Spec.           *)
(*   FairSpec    Spec with the fairness the event loop guarantees.         *)
(*   SpecCompose buildHighlightedHtml run step by step on bounded inputs.  *)
(*                                                                         *)
(* Strings are sequences of one-character strings.  A JavaScript value     *)
(* that is absent (undefined, null) is modelled by the falsy value the     *)
(* code replaces it with: 0 for numbers, "" for strings.                   *)
(***************************************************************************)
EXTENDS Integers, Sequences, FiniteSets, TLC

VARIABLES
    mode,             \* initArgs.mode || "practice"
    minWords,         \* initArgs.min_words || 0
    maxAttempts,      \* initArgs.max_attempts || 1
    showScoreInExam,  \* !!initArgs.show_score_in_exam
    attemptsUsed,     \* the closure variable attemptsUsed
    attemptsShown,    \* text of $attemptsUsed
    text,             \* $textarea.val()
    counts,           \* $wordCurrent / $charCurrent and their "exceeded" class
    loading,          \* $root has class essayxblock-block-loading
    submitDisabled,   \* $submitBtn.prop("disabled")
    submitLabel,      \* $submitBtn.text()
    feedback,         \* content of $feedback
    shown,            \* history: what the latest handler that wrote $feedback
                      \* put there, in order (the last one is feedback)
    pending,          \* the $.ajax requests whose callbacks have not all run
    maxReachedShown,  \* history: renderError has handled code MAX_ATTEMPTS_REACHED
    cText,            \* buildHighlightedHtml: text
    cInput,           \* buildHighlightedHtml: spans as passed in
    cSpans,           \* buildHighlightedHtml: spans after the sort
    cI,               \* buildHighlightedHtml: loop index i (1-based here)
    cCursor,          \* buildHighlightedHtml: cursor
    cResult,          \* buildHighlightedHtml: result (the pushed chunks)
    cPc,              \* buildHighlightedHtml: position in the function
    lLegend,          \* renderLegend: legend
    lHtml,            \* renderLegend: html (the pushed pieces)
    lPc,              \* renderLegend: position in the function
    sResult,          \* renderSuccess, score section: result
    sScore,           \* renderSuccess, score section: the element appended
    sPc               \* renderSuccess, score section: position

ctlVars == <<mode, minWords, maxAttempts, showScoreInExam, attemptsUsed,
             attemptsShown, text, counts, loading, submitDisabled,
             submitLabel, feedback, shown, pending, maxReachedShown>>
cmpVars == <<cText, cInput, cSpans, cI, cCursor, cResult, cPc>>
lgdVars == <<lLegend, lHtml, lPc>>
scrVars == <<sResult, sScore, sPc>>
vars == <<ctlVars, cmpVars, lgdVars, scrVars>>

----------------------------------------------------------------------------
(* Bounds of the model *)

MaxTextWords == 2      \* most words of a textarea content
MaxAttemptsCfg == 3    \* largest configured max_attempts
MaxAU == 2             \* largest attempts_used a response or initArgs carries
MaxPending == 2        \* requests tracked at once (the widget keeps at most 1)
MaxWordsCfg == 1       \* configured max_words
MaxCharsCfg == 1       \* configured max_chars

----------------------------------------------------------------------------
(* Strings *)

RECURSIVE SeqsUpTo(_, _)
SeqsUpTo(S, n) ==
    IF n = 0 THEN {<<>>}
    ELSE LET shorter == SeqsUpTo(S, n - 1)
         IN  shorter \cup {Append(s, c) : s \in {t \in shorter : Len(t) = n - 1}, c \in S}

IsSpace(c) == c = " "

\* String.prototype.trim
RECURSIVE trimLeft(_)
trimLeft(s) ==
    IF s = <<>> THEN s
    ELSE IF IsSpace(Head(s)) THEN trimLeft(Tail(s)) ELSE s

RECURSIVE trimRight(_)
trimRight(s) ==
    IF s = <<>> THEN s
    ELSE IF IsSpace(s[Len(s)]) THEN trimRight(SubSeq(s, 1, Len(s) - 1)) ELSE s

trimNothing(s) == s

trim(s) == trimRight(trimLeft(s))

\* trimmed.split(/\s+/).length for a trimmed, non-empty string: one more than
\* the number of maximal whitespace runs
SplitLength(s) ==
    1 + Cardinality({i \in 2..Len(s) : IsSpace(s[i]) /\ ~IsSpace(s[i - 1])})

countWords(s) ==
    IF s = <<>> THEN 0
    ELSE IF trim(s) = <<>> THEN 0
    ELSE SplitLength(trim(s))

\* The textarea contents considered: empty, blank, and one or more words
\* separated by a space, bare or with a space on either side
RECURSIVE Words(_)
Words(n) == IF n <= 1 THEN <<"a">> ELSE Words(n - 1) \o <<" ", "a">>
Texts ==
    {<<>>, <<" ">>}
    \cup {Words(n) : n \in 1..MaxTextWords}
    \cup {<<" ">> \o Words(n) \o <<" ">> : n \in 1..MaxTextWords}

\* updateCounts: the counters shown for a textarea content
updateCounts(s) ==
    [words |-> countWords(s),
     chars |-> Len(s),
     wordsExceeded |-> MaxWordsCfg /= 0 /\ countWords(s) > MaxWordsCfg,
     charsExceeded |-> MaxCharsCfg /= 0 /\ Len(s) > MaxCharsCfg]

----------------------------------------------------------------------------
(* Messages and values exchanged with the backend *)

MsgEmpty == "Please type your essay before submitting."
MsgTooShort == "Your essay is too short."
MsgMaxLocal == "You have already used all available attempts for this question."
MsgSubmitting == "Submitting your essay for scoring..."
MsgGeneric == "We couldn't score your essay right now. Please try again later."
MsgTimeout == "Scoring took too long. Please try again or shorten your essay."
MsgNetwork == "Network error while submitting essay"
MsgBackend == "message from the backend"
MsgExamHidden == "Your submission has been recorded. Score and detailed feedback are hidden in exam mode."
MsgExamScore == "Your submission has been recorded. Detailed feedback is hidden in exam mode."

LabelSubmit == "Submit essay"
LabelSubmitting == "Submitting..."

CodeMax == "MAX_ATTEMPTS_REACHED"
CodeTimeout == "BACKEND_TIMEOUT"
CodeOther == "SCORING_FAILED"

NoError == [code |-> "", message |-> ""]

\* What a success payload may carry besides status, mode and attempts_used
ContentKinds == {"score", "categories", "summary", "strengths", "improvements", "legend",
                 "spans", "model_essay"}
Contents == {{}, ContentKinds} \cup {{k} : k \in ContentKinds}

OkResults ==
    [status : {"ok"}, mode : {"", "practice", "exam"}, attempts_used : 0..MaxAU,
     has : Contents, error : {NoError}]

\* Any other payload: an error object, or a body with neither status nor error
ErrResults ==
    [status : {"error"}, mode : {""}, attempts_used : {0}, has : {{}},
     error : [code : {"", CodeMax, CodeTimeout, CodeOther},
              message : {"", MsgBackend}]]

Results == OkResults \cup ErrResults

NoResult == [status |-> "", mode |-> "", attempts_used |-> 0, has |-> {},
             error |-> NoError]

\* The argument of renderError: a string, or a result object
StrArg(m) == [isString |-> TRUE, msg |-> m, error |-> NoError]
ObjArg(r) == [isString |-> FALSE, msg |-> "", error |-> r.error]

NoScoreResult ==
    [mode |-> "", score |-> [raw |-> <<>>, normalized |-> <<>>, scale_max |-> <<>>]]
NoScore == <<>>

NoFeedback == [kind |-> "none", msg |-> "", sections |-> {}]

\* showMessage(message, isError)
showMessage(message, isError) ==
    [kind |-> IF isError THEN "error" ELSE "info", msg |-> message, sections |-> {}]

\* setSubmitting(isSubmitting): class of $root, disabled and text of $submitBtn
setSubmittingKeepsEnabled(isSubmitting) ==
    IF isSubmitting
    THEN [loading |-> TRUE, disabled |-> submitDisabled, label |-> LabelSubmitting]
    ELSE [loading |-> FALSE, disabled |-> FALSE, label |-> LabelSubmit]

setSubmittingNoRestore(isSubmitting) ==
    IF isSubmitting
    THEN [loading |-> TRUE, disabled |-> TRUE, label |-> LabelSubmitting]
    ELSE [loading |-> FALSE, disabled |-> submitDisabled, label |-> LabelSubmit]

setSubmittingNeverEnables(isSubmitting) ==
    [loading |-> isSubmitting, disabled |-> TRUE,
     label |-> IF isSubmitting THEN LabelSubmitting ELSE LabelSubmit]

setSubmitting(isSubmitting) ==
    IF isSubmitting
    THEN [loading |-> TRUE, disabled |-> TRUE, label |-> LabelSubmitting]
    ELSE [loading |-> FALSE, disabled |-> FALSE, label |-> LabelSubmit]

\* renderSuccess, line 205: attemptsUsed = result.attempts_used || attemptsUsed
attemptsFromResultNoFallback(result) == result.attempts_used

attemptsFromResult(result) ==
    IF result.attempts_used /= 0 THEN result.attempts_used ELSE attemptsUsed

----------------------------------------------------------------------------
(* buildHighlightedHtml and renderLegend as functions *)

Min(a, b) == IF a < b THEN a ELSE b
Max(a, b) == IF a > b THEN a ELSE b

\* String.prototype.slice(a, b)
slice(s, a, b) ==
    LET n == Len(s)
        from == IF a < 0 THEN Max(n + a, 0) ELSE Min(a, n)
        to == IF b < 0 THEN Max(n + b, 0) ELSE Min(b, n)
    IN  IF from >= to THEN <<>> ELSE SubSeq(s, from + 1, to)

\* Array.prototype.sort with the comparator of lines 128-132 (as - bs, on the
\* start as given): a stable sort, here by insertion from the left.  x goes
\* behind every element whose start is not greater than its own.
insertReversingTies(sorted, x) ==
    LET k == Cardinality({i \in 1..Len(sorted) : sorted[i].start < x.start})
    IN  SubSeq(sorted, 1, k) \o <<x>> \o SubSeq(sorted, k + 1, Len(sorted))

insert(sorted, x) ==
    LET k == Cardinality({i \in 1..Len(sorted) : sorted[i].start <= x.start})
    IN  SubSeq(sorted, 1, k) \o <<x>> \o SubSeq(sorted, k + 1, Len(sorted))

RECURSIVE sortByStart(_)
sortByStart(spans) ==
    IF spans = <<>> THEN <<>>
    ELSE insert(sortByStart(SubSeq(spans, 1, Len(spans) - 1)), spans[Len(spans)])

\* lines 145-148, in the order of the code
clampNoUpperEnd(span, len) ==
    LET start1 == IF span.start < 0 THEN 0 ELSE span.start
        end1 == IF span.end < start1 THEN start1 ELSE span.end
        start2 == IF start1 > len THEN len ELSE start1
    IN  [start |-> start2, end |-> end1]

clamp(span, len) ==
    LET start1 == IF span.start < 0 THEN 0 ELSE span.start
        end1 == IF span.end < start1 THEN start1 ELSE span.end
        start2 == IF start1 > len THEN len ELSE start1
        end2 == IF end1 > len THEN len ELSE end1
    IN  [start |-> start2, end |-> end2]

\* Strings that reach the markup are sequences of characters; a literal of
\* the code is kept as one element.

\* String.prototype.replace(/c/g, rep)
RECURSIVE replaceAll(_, _, _)
replaceAll(s, c, rep) ==
    IF s = <<>> THEN <<>>
    ELSE (IF Head(s) = c THEN rep ELSE <<Head(s)>>) \o replaceAll(Tail(s), c, rep)

Amp == <<"&", "a", "m", "p", ";">>
Lt == <<"&", "l", "t", ";">>
Gt == <<"&", "g", "t", ";">>
Quot == <<"&", "q", "u", "o", "t", ";">>
Apos == <<"&", "#", "3", "9", ";">>

\* escapeHtml, lines 53-60: the five replacements in the order of the code
escapeHtmlAmpersandLast(t) ==
    replaceAll(replaceAll(replaceAll(replaceAll(replaceAll(
        t, "<", Lt), ">", Gt), "\"", Quot), "'", Apos), "&", Amp)

escapeHtml(t) ==
    replaceAll(replaceAll(replaceAll(replaceAll(replaceAll(
        t, "&", Amp), "<", Lt), ">", Gt), "\"", Quot), "'", Apos)

Generic == <<"g", "e", "n", "e", "r", "i", "c">>
Grammar == <<"g", "r", "a", "m", "m", "a", "r">>
ErrorClassPrefix == <<"essayxblock-error-">>

\* A chunk pushed on result: the slice taken and its escaped form, and for a
\* highlighted chunk the type and message of its span, the value of the class
\* attribute and the values of the data-message and title attributes (empty
\* when the attribute is not written)
PlainRun(t, a, b) ==
    [kind |-> "plain", from |-> a, to |-> b, chunk |-> slice(t, a, b),
     html |-> escapeHtml(slice(t, a, b)),
     type |-> <<>>, msg |-> <<>>, cssClass |-> <<>>,
     dataMessage |-> <<>>, title |-> <<>>]
SpanRun(t, a, b, span) ==
    LET type == IF span.type /= <<>> THEN span.type ELSE Generic
    IN  [kind |-> "span", from |-> a, to |-> b, chunk |-> slice(t, a, b),
         html |-> escapeHtml(slice(t, a, b)),
         type |-> type, msg |-> span.msg, cssClass |-> ErrorClassPrefix \o type,
         dataMessage |-> IF span.msg /= <<>> THEN escapeHtml(span.msg) ELSE <<>>,
         title |-> IF span.msg /= <<>> THEN escapeHtml(span.msg) ELSE <<>>]
EmptyMarker ==
    [kind |-> "empty", from |-> 0, to |-> 0, chunk |-> <<>>, html |-> <<>>,
     type |-> <<>>, msg |-> <<>>, cssClass |-> <<>>,
     dataMessage |-> <<>>, title |-> <<>>]

\* lines 139-166: one iteration of the loop
spanStep(t, result, cursor, span) ==
    LET c == clamp(span, Len(t))
    IN  [result |-> result
                    \o (IF c.start > cursor THEN <<PlainRun(t, cursor, c.start)>> ELSE <<>>)
                    \o <<SpanRun(t, c.start, c.end, span)>>,
         cursor |-> c.end]

\* lines 134-175: the chunks pushed for a non-empty text and sorted spans
RECURSIVE spanLoop(_, _, _, _)
spanLoop(t, result, cursor, spans) ==
    IF spans = <<>>
    THEN result \o (IF cursor < Len(t) THEN <<PlainRun(t, cursor, Len(t))>> ELSE <<>>)
    ELSE spanLoop(t, spanStep(t, result, cursor, Head(spans)).result,
                  spanStep(t, result, cursor, Head(spans)).cursor, Tail(spans))

\* buildHighlightedHtml(text, spans), lines 112-176
buildHighlightedHtml(t, spans) ==
    IF t = <<>> THEN <<EmptyMarker>>
    ELSE IF spans = <<>> THEN <<PlainRun(t, 0, Len(t))>>
    ELSE spanLoop(t, <<>>, 0, sortByStart(spans))

\* A legend is absent (any falsy value) or an object, whose own keys come in
\* insertion order; a label is empty when the item has none
NoLegend == [present |-> FALSE, entries |-> <<>>]
EmptyLegend == [present |-> TRUE, entries |-> <<>>]

LegendItemPrefix == <<"essayxblock-legend-item-">>
LegendColorPrefix == <<"legend-">>

\* what renderLegend pushes on html: the opening, lines 180-181
LegendOpen ==
    [kind |-> "open", cssClass |-> <<>>, color |-> <<>>, label |-> <<>>]
\* lines 184-195
LegendItem(e) ==
    [kind |-> "li", cssClass |-> LegendItemPrefix \o e.key,
     color |-> LegendColorPrefix \o e.key,
     label |-> escapeHtml(IF e.label /= <<>> THEN e.label ELSE e.key)]
\* line 197
LegendClose ==
    [kind |-> "close", cssClass |-> <<>>, color |-> <<>>, label |-> <<>>]

\* renderLegend(legend), lines 178-199: the pieces joined, none for ""
renderLegend(legend) ==
    IF ~legend.present THEN <<>>
    ELSE <<LegendOpen>>
         \o [k \in 1..Len(legend.entries) |-> LegendItem(legend.entries[k])]
         \o <<LegendClose>>

----------------------------------------------------------------------------
(* renderSuccess and renderError *)

\* renderSuccess, lines 208-209
isExam(result) == (IF result.mode /= "" THEN result.mode ELSE mode) = "exam"
canShowScore(result) == ~isExam(result) \/ showScoreInExam

\* An optional number of the score object: <<>> when undefined or null
Opt(S) == {<<>>} \cup {<<v>> : v \in S}

\* Math.round(normalized * 100), normalized counted in thousandths
roundPercent(n) == (n + 5) \div 10

\* renderSuccess, lines 221-232: the text of the score element, in pieces
scoreTextNormalizedFirst(score) ==
    IF score.normalized /= <<>>
    THEN <<"Score: ", ToString(roundPercent(score.normalized[1])), "%">>
    ELSE IF score.raw /= <<>>
    THEN <<"Score: ", ToString(score.raw[1])>>
         \o (IF score.scale_max /= <<>>
             THEN <<" / ", ToString(score.scale_max[1])>> ELSE <<>>)
    ELSE <<"Score available.">>

scoreText(score) ==
    IF score.raw /= <<>>
    THEN <<"Score: ", ToString(score.raw[1])>>
         \o (IF score.scale_max /= <<>>
             THEN <<" / ", ToString(score.scale_max[1])>> ELSE <<>>)
    ELSE IF score.normalized /= <<>>
    THEN <<"Score: ", ToString(roundPercent(score.normalized[1])), "%">>
    ELSE <<"Score available.">>

\* renderSuccess, lines 220-239: the score elements appended to $content
scoreSection(result) ==
    IF canShowScore(result) THEN <<scoreText(result.score)>> ELSE <<>>

\* renderSuccess, lines 330-335: the spans and the legend of the annotations.
\* A result that has spans carries one span, one that has a legend one entry.
spansOf(result) ==
    IF "spans" \in result.has
    THEN <<[start |-> 0, end |-> 1, type |-> Grammar, msg |-> <<>>]>>
    ELSE <<>>
legendOf(result) ==
    LET given == IF "legend" \in result.has
                 THEN [present |-> TRUE,
                       entries |-> <<[key |-> Grammar, label |-> <<>>]>>]
                 ELSE NoLegend
    IN  IF given.present THEN given ELSE EmptyLegend

\* renderSuccess, lines 349-364: the legend, or the "no issues" notice
legendSections(result) ==
    IF spansOf(result) /= <<>>
    THEN LET legendHtml == renderLegend(legendOf(result))
         IN  (IF legendHtml /= <<>> THEN {"legend"} ELSE {})
             \cup (IF \E k \in 1..Len(legendHtml) : legendHtml[k].kind = "li"
                   THEN {"legenditem"} ELSE {})
    ELSE {"noissues"}

\* renderSuccess, lines 265-378: the sections of the practice view
practiceSections(result) ==
    (result.has \cap {"categories", "summary", "strengths", "improvements"})
    \cup {"essay"}
    \cup legendSections(result)
    \cup (IF "model_essay" \in result.has THEN {"model"} ELSE {})

\* renderSuccess, lines 208-386: what $feedback holds afterwards
renderSuccessNoEarlyReturn(result) ==
    [kind |-> "view",
     msg |-> IF isExam(result)
             THEN (IF canShowScore(result) THEN MsgExamScore ELSE MsgExamHidden)
             ELSE "",
     sections |-> (IF canShowScore(result) THEN {"score"} ELSE {})
                  \cup (IF isExam(result) THEN {"exammsg"} ELSE {})
                  \cup practiceSections(result)]

renderSuccess(result) ==
    [kind |-> "view",
     msg |-> IF isExam(result)
             THEN (IF canShowScore(result) THEN MsgExamScore ELSE MsgExamHidden)
             ELSE "",
     sections |-> (IF canShowScore(result) THEN {"score"} ELSE {})
                  \cup (IF isExam(result)
                        THEN {"exammsg"}
                        ELSE practiceSections(result))]

\* renderError(resultOrMsg): the message shown, and whether line 406 runs
renderError(arg) ==
    IF arg.isString
    THEN [feedback |-> showMessage(arg.msg, TRUE), isMax |-> FALSE]
    ELSE LET code == arg.error.code
             msg0 == IF arg.error.message /= "" THEN arg.error.message ELSE MsgGeneric
             msg == IF code = CodeTimeout /\ msg0 = "" THEN MsgTimeout ELSE msg0
         IN  [feedback |-> showMessage(msg, TRUE), isMax |-> code = CodeMax]

\* click handler, line 523
attemptsExhaustedStrict(used, max) == used > max

attemptsExhausted(used, max) == used >= max

----------------------------------------------------------------------------
(* The widget *)

MinWordsCfgs == {0, 2}

\* A request of the click handler: the text its closure captured, and how far
\* its callbacks have run ("sent": none yet; "handled": done or fail has run,
\* always has not)
Request(t) == [text |-> t, stage |-> "sent", outcome |-> "none", result |-> NoResult]

Handling == \E i \in 1..Len(pending) : pending[i].stage = "handled"

RemoveAt(q, i) == SubSeq(q, 1, i - 1) \o SubSeq(q, i + 1, Len(q))

\* EssayXBlock(runtime, element, initArgs), lines 3-33 and 570
Init ==
    /\ mode \in {"practice", "exam"}
    /\ minWords \in MinWordsCfgs
    /\ maxAttempts \in 1..MaxAttemptsCfg
    /\ showScoreInExam \in BOOLEAN
    /\ attemptsUsed \in 0..MaxAU
    /\ attemptsShown = attemptsUsed
    /\ text = <<>>
    /\ counts = updateCounts(<<>>)
    /\ loading = FALSE
    /\ submitDisabled = FALSE
    /\ submitLabel = LabelSubmit
    /\ feedback = NoFeedback
    /\ shown = <<>>
    /\ pending = <<>>
    /\ maxReachedShown = FALSE
    /\ cText = <<>>
    /\ cInput = <<>>
    /\ cSpans = <<>>
    /\ cI = 0
    /\ cCursor = 0
    /\ cResult = <<>>
    /\ cPc = "off"
    /\ lLegend = NoLegend
    /\ lHtml = <<>>
    /\ lPc = "off"
    /\ sResult = NoScoreResult
    /\ sScore = NoScore
    /\ sPc = "off"

cfgVars == <<mode, minWords, maxAttempts, showScoreInExam>>

\* $textarea.on("input"): the user edits the text
Input ==
    /\ ~Handling
    /\ \E t \in Texts \ {text} :
        /\ text' = t
        /\ counts' = updateCounts(t)
    /\ UNCHANGED <<cfgVars, attemptsUsed, attemptsShown, loading,
                   submitDisabled, submitLabel, feedback, shown, pending,
                   maxReachedShown, cmpVars, lgdVars, scrVars>>

\* $btnCut click, lines 448-476: write the text to the system clipboard
\* (which is outside the widget), then clear the textarea
Cut ==
    /\ ~Handling
    /\ text /= <<>>
    /\ text' = <<>>
    /\ counts' = updateCounts(<<>>)
    /\ UNCHANGED <<cfgVars, attemptsUsed, attemptsShown, loading,
                   submitDisabled, submitLabel, feedback, shown, pending,
                   maxReachedShown, cmpVars, lgdVars, scrVars>>

\* $btnPaste click, lines 478-494: readText resolves with clipText, whatever
\* the system clipboard holds; an empty clipText or a rejection changes nothing
Paste ==
    /\ ~Handling
    /\ \E clipText \in Texts \ {<<>>} :
        LET pasted == text \o (IF text /= <<>> THEN <<" ">> ELSE <<>>) \o clipText
        IN  /\ pasted \in Texts
            /\ text' = pasted
            /\ counts' = updateCounts(pasted)
    /\ UNCHANGED <<cfgVars, attemptsUsed, attemptsShown, loading,
                   submitDisabled, submitLabel, feedback, shown, pending,
                   maxReachedShown, cmpVars, lgdVars, scrVars>>

\* click handler, lines 511-520: the message of the soft check for min words,
\* if it is shown; the handler goes on either way
softCheck(t) ==
    IF minWords /= 0 /\ countWords(t) < minWords
    THEN <<showMessage(MsgTooShort, TRUE)>>
    ELSE <<>>

\* $submitBtn.on("click"), lines 502-543.  A disabled button dispatches no
\* click event, and no event is handled while the callbacks of a settled
\* request are running.
ClickCountsAttempt ==
    /\ ~submitDisabled
    /\ ~Handling
    /\ IF trim(text) = <<>>
       THEN /\ feedback' = showMessage(MsgEmpty, TRUE)
            /\ shown' = <<showMessage(MsgEmpty, TRUE)>>
            /\ UNCHANGED <<loading, submitDisabled, submitLabel, pending,
                           maxReachedShown, attemptsUsed, attemptsShown>>
       ELSE IF attemptsExhausted(attemptsUsed, maxAttempts)
       THEN LET err == renderError(ObjArg([error |-> [code |-> CodeMax,
                                                      message |-> MsgMaxLocal]]))
            IN  /\ feedback' = err.feedback
                /\ shown' = softCheck(text) \o <<err.feedback>>
                /\ submitDisabled' = (err.isMax \/ submitDisabled)
                /\ maxReachedShown' = (err.isMax \/ maxReachedShown)
                /\ UNCHANGED <<loading, submitLabel, pending, attemptsUsed,
                               attemptsShown>>
       ELSE /\ Len(pending) < MaxPending
            /\ loading' = setSubmitting(TRUE).loading
            /\ submitDisabled' = setSubmitting(TRUE).disabled
            /\ submitLabel' = setSubmitting(TRUE).label
            /\ feedback' = showMessage(MsgSubmitting, FALSE)
            /\ shown' = softCheck(text) \o <<showMessage(MsgSubmitting, FALSE)>>
            /\ pending' = Append(pending, Request(text))
            /\ attemptsUsed' = attemptsUsed + 1
            /\ attemptsShown' = attemptsUsed + 1
            /\ UNCHANGED maxReachedShown
    /\ UNCHANGED <<cfgVars, text, counts, cmpVars, lgdVars, scrVars>>

Click ==
    /\ ~submitDisabled
    /\ ~Handling
    /\ IF trim(text) = <<>>
       THEN /\ feedback' = showMessage(MsgEmpty, TRUE)
            /\ shown' = <<showMessage(MsgEmpty, TRUE)>>
            /\ UNCHANGED <<loading, submitDisabled, submitLabel, pending,
                           maxReachedShown>>
       ELSE IF attemptsExhausted(attemptsUsed, maxAttempts)
       THEN LET err == renderError(ObjArg([error |-> [code |-> CodeMax,
                                                      message |-> MsgMaxLocal]]))
            IN  /\ feedback' = err.feedback
                /\ shown' = softCheck(text) \o <<err.feedback>>
                /\ submitDisabled' = (err.isMax \/ submitDisabled)
                /\ maxReachedShown' = (err.isMax \/ maxReachedShown)
                /\ UNCHANGED <<loading, submitLabel, pending>>
       ELSE /\ Len(pending) < MaxPending
            /\ loading' = setSubmitting(TRUE).loading
            /\ submitDisabled' = setSubmitting(TRUE).disabled
            /\ submitLabel' = setSubmitting(TRUE).label
            /\ feedback' = showMessage(MsgSubmitting, FALSE)
            /\ shown' = softCheck(text) \o <<showMessage(MsgSubmitting, FALSE)>>
            /\ pending' = Append(pending, Request(text))
            /\ UNCHANGED maxReachedShown
    /\ UNCHANGED <<cfgVars, attemptsUsed, attemptsShown, text, counts,
                   cmpVars, lgdVars, scrVars>>

\* .done(function (result)), lines 544-550
Done ==
    /\ ~Handling
    /\ \E i \in 1..Len(pending), result \in Results :
        /\ pending[i].stage = "sent"
        /\ pending' = [pending EXCEPT ![i] = [text |-> pending[i].text,
                                               stage |-> "handled",
                                               outcome |-> IF result.status = "ok"
                                                           THEN "ok" ELSE "notok",
                                               result |-> result]]
        /\ IF result.status = "ok"
           THEN /\ attemptsUsed' = attemptsFromResult(result)
                /\ attemptsShown' = attemptsFromResult(result)
                /\ feedback' = renderSuccess(result)
                /\ shown' = <<renderSuccess(result)>>
                /\ UNCHANGED <<submitDisabled, maxReachedShown>>
           ELSE /\ feedback' = renderError(ObjArg(result)).feedback
                /\ shown' = <<renderError(ObjArg(result)).feedback>>
                /\ submitDisabled' = (renderError(ObjArg(result)).isMax \/ submitDisabled)
                /\ maxReachedShown' = (renderError(ObjArg(result)).isMax \/ maxReachedShown)
                /\ UNCHANGED <<attemptsUsed, attemptsShown>>
    /\ UNCHANGED <<cfgVars, text, counts, loading, submitLabel, cmpVars, lgdVars, scrVars>>

\* .fail(function (jqXHR, textStatus, errorThrown)), lines 551-563
Fail ==
    /\ ~Handling
    /\ \E i \in 1..Len(pending) :
        /\ pending[i].stage = "sent"
        /\ pending' = [pending EXCEPT ![i] = [text |-> pending[i].text,
                                               stage |-> "handled",
                                               outcome |-> "fail",
                                               result |-> NoResult]]
        /\ feedback' = renderError(StrArg(MsgNetwork)).feedback
        /\ shown' = <<renderError(StrArg(MsgNetwork)).feedback>>
        /\ submitDisabled' = (renderError(StrArg(MsgNetwork)).isMax \/ submitDisabled)
        /\ maxReachedShown' = (renderError(StrArg(MsgNetwork)).isMax \/ maxReachedShown)
    /\ UNCHANGED <<cfgVars, attemptsUsed, attemptsShown, text, counts, loading, submitLabel, cmpVars, lgdVars, scrVars>>

\* .always(function ()), lines 564-566: runs right after done or fail
Always ==
    /\ \E i \in 1..Len(pending) :
        /\ pending[i].stage = "handled"
        /\ pending' = RemoveAt(pending, i)
    /\ loading' = setSubmitting(FALSE).loading
    /\ submitDisabled' = setSubmitting(FALSE).disabled
    /\ submitLabel' = setSubmitting(FALSE).label
    /\ UNCHANGED <<cfgVars, attemptsUsed, attemptsShown, text, counts,
                   feedback, shown, maxReachedShown, cmpVars, lgdVars, scrVars>>

Next == Input \/ Cut \/ Paste \/ Click \/ Done \/ Fail \/ Always

Spec == Init /\ [][Next]_vars

\* Once done or fail has run, jQuery runs the always callback in the same turn
FairSpec == Spec /\ WF_vars(Always)

----------------------------------------------------------------------------
(* Properties of the widget *)

Sent == {i \in 1..Len(pending) : pending[i].stage = "sent"}
Handled == {i \in 1..Len(pending) : pending[i].stage = "handled"}

Clean ==
    /\ pending = <<>>
    /\ ~loading
    /\ submitLabel = LabelSubmit
    /\ ~submitDisabled

\* C2: once an error with code MAX_ATTEMPTS_REACHED has been presented, the
\* submit control is disabled in every later state, also after the finalizer
\* of the request has run.
C2_DisabledAfterMaxAttempts == maxReachedShown => submitDisabled

\* C3: attempts_used never gets smaller from one state to the next.
C3_AttemptsMonotone == [][attemptsUsed' >= attemptsUsed]_vars

\* C3 (amended): attempts_used gets smaller only in the step that processes a
\* success response, and then it becomes that response's attempts_used, which
\* is not 0; no click, error payload, transport failure or success payload
\* without attempts_used lowers it.
C3_AttemptsLoweredOnlyByServer ==
    [][attemptsUsed' < attemptsUsed =>
         \E i \in 1..Len(pending) :
            /\ pending[i].stage = "sent"
            /\ Len(pending') = Len(pending)
            /\ pending'[i].outcome = "ok"
            /\ pending'[i].result.attempts_used = attemptsUsed'
            /\ attemptsUsed' /= 0]_vars

\* a success response has just raised the counter to max_attempts or beyond
C3_Witness ==
    \E i \in Handled :
        /\ pending[i].outcome = "ok"
        /\ pending[i].result.attempts_used = attemptsUsed
        /\ attemptsUsed >= maxAttempts

\* C4: a click with non-blank text while attempts_used >= max_attempts shows
\* the locally made MAX_ATTEMPTS_REACHED error and sends nothing; no request
\* is sent, or waits for its response, while attempts_used >= max_attempts.
C4_AttemptGuard ==
    /\ [](\A i \in Sent : attemptsUsed < maxAttempts)
    /\ [][(Click /\ trim(text) /= <<>> /\ attemptsUsed >= maxAttempts) =>
            /\ pending' = pending
            /\ feedback' = showMessage(MsgMaxLocal, TRUE)
            /\ maxReachedShown']_vars

\* the guard has just rejected a click
C4_Witness ==
    /\ feedback = showMessage(MsgMaxLocal, TRUE)
    /\ trim(text) /= <<>>
    /\ attemptsUsed >= maxAttempts
    /\ pending = <<>>

\* C5: at most one request is outstanding, and while one is the submit control
\* is disabled, so that no click reaches the handler.
C5_AtMostOneInFlight ==
    /\ Len(pending) <= 1
    /\ pending /= <<>> => submitDisabled

\* a request is waiting for its response
C5_Witness == Len(pending) = 1 /\ Sent = {1}

C7_ExamDisclosure ==
    \A i \in Handled :
        (pending[i].outcome = "ok" /\ isExam(pending[i].result)) =>
            /\ feedback.kind = "view"
            /\ feedback.sections \cap {"categories", "summary", "strengths",
                                       "improvements", "essay", "model"} = {}
            /\ "score" \in feedback.sections <=> showScoreInExam

\* an exam result carrying every kind of content, the score hidden
C7_Witness ==
    \E i \in Handled :
        /\ pending[i].outcome = "ok"
        /\ isExam(pending[i].result)
        /\ pending[i].result.has = ContentKinds
        /\ ~showScoreInExam
        /\ feedback.sections = {"exammsg"}

----------------------------------------------------------------------------
(* buildHighlightedHtml *)

MaxLen == 2     \* longest essay text given to buildHighlightedHtml
MaxSpans == 2   \* most spans given to buildHighlightedHtml

\* The inputs: texts whose characters differ from position to position, and
\* spans whose start lies up to two places outside the text and whose end is
\* before, at or behind the start
CChars == <<"a", "<", "b", "&">>
CTextOfLen(n) == [i \in 1..n |-> CChars[((i - 1) % 4) + 1]]
CTexts == {CTextOfLen(n) : n \in 0..MaxLen}
CSpanSet ==
    {[start |-> st, end |-> st + d, type |-> Grammar, msg |-> <<>>] :
        st \in (0 - 2)..(MaxLen + 2), d \in (0 - 1)..MaxLen}
CSpanLists == SeqsUpTo(CSpanSet, MaxSpans)

InitCompose ==
    /\ mode = "practice"
    /\ minWords = 0
    /\ maxAttempts = 1
    /\ showScoreInExam = FALSE
    /\ attemptsUsed = 0
    /\ attemptsShown = 0
    /\ text = <<>>
    /\ counts = updateCounts(<<>>)
    /\ loading = FALSE
    /\ submitDisabled = FALSE
    /\ submitLabel = LabelSubmit
    /\ feedback = NoFeedback
    /\ shown = <<>>
    /\ pending = <<>>
    /\ maxReachedShown = FALSE
    /\ cText \in CTexts
    /\ cInput \in CSpanLists
    /\ cSpans = <<>>
    /\ cI = 0
    /\ cCursor = 0
    /\ cResult = <<>>
    /\ cPc = "start"
    /\ lLegend = NoLegend
    /\ lHtml = <<>>
    /\ lPc = "off"
    /\ sResult = NoScoreResult
    /\ sScore = NoScore
    /\ sPc = "off"

\* lines 118-136: the early returns, the sort, and the loop's initial state
BeginWithoutEmptyCheck ==
    /\ cPc = "start"
    /\ IF cInput = <<>>
       THEN /\ cResult' = <<PlainRun(cText, 0, Len(cText))>>
            /\ cPc' = "done"
            /\ UNCHANGED <<cSpans, cI, cCursor>>
       ELSE /\ cSpans' = sortByStart(cInput)
            /\ cI' = 1
            /\ cCursor' = 0
            /\ cResult' = <<>>
            /\ cPc' = "loop"
    /\ UNCHANGED <<cText, cInput, ctlVars, lgdVars, scrVars>>

Begin ==
    /\ cPc = "start"
    /\ IF cText = <<>>
       THEN /\ cResult' = <<EmptyMarker>>
            /\ cPc' = "done"
            /\ UNCHANGED <<cSpans, cI, cCursor>>
       ELSE IF cInput = <<>>
       THEN /\ cResult' = <<PlainRun(cText, 0, Len(cText))>>
            /\ cPc' = "done"
            /\ UNCHANGED <<cSpans, cI, cCursor>>
       ELSE /\ cSpans' = sortByStart(cInput)
            /\ cI' = 1
            /\ cCursor' = 0
            /\ cResult' = <<>>
            /\ cPc' = "loop"
    /\ UNCHANGED <<cText, cInput, ctlVars, lgdVars, scrVars>>

\* lines 138-167: the loop body for spans[i]
Loop ==
    /\ cPc = "loop"
    /\ cI <= Len(cSpans)
    /\ cResult' = spanStep(cText, cResult, cCursor, cSpans[cI]).result
    /\ cCursor' = spanStep(cText, cResult, cCursor, cSpans[cI]).cursor
    /\ cI' = cI + 1
    /\ UNCHANGED <<cText, cInput, cSpans, cPc, ctlVars, lgdVars, scrVars>>

\* lines 169-175: the remaining text, and the return
Finish ==
    /\ cPc = "loop"
    /\ cI > Len(cSpans)
    /\ cResult' = cResult \o (IF cCursor < Len(cText)
                              THEN <<PlainRun(cText, cCursor, Len(cText))>>
                              ELSE <<>>)
    /\ cPc' = "done"
    /\ UNCHANGED <<cText, cInput, cSpans, cI, cCursor, ctlVars, lgdVars, scrVars>>

NextCompose == Begin \/ Loop \/ Finish

SpecCompose == InitCompose /\ [][NextCompose]_vars

----------------------------------------------------------------------------
(* The markup: buildHighlightedHtml and renderLegend on texts, types,
   messages, keys and labels that hold the characters escapeHtml replaces *)

MaxMarkLen == 1     \* longest essay text
MaxMarkSpans == 1   \* most spans
MaxLegend == 1      \* most entries of a legend

MChars == {"a", "&", "<", ">", "\"", "'"}
MTexts == SeqsUpTo(MChars, MaxMarkLen)
MTypes == {<<>>, <<"s", "t", "y", "l", "e">>, <<"x", "\"", ">", "<", "&">>}
MMsgs == {<<>>, <<"a">>, <<"&", "l", "t", ";", "<", ">", "\"", "'">>}
MSpanSet ==
    {s \in [start : 0..MaxMarkLen, end : 0..MaxMarkLen, type : MTypes, msg : MMsgs] :
        s.start <= s.end}
MSpanLists == SeqsUpTo(MSpanSet, MaxMarkSpans)

MKeys == {<<"s", "t", "y", "l", "e">>, <<"x", "\"", ">", "<", "&">>}
MLabels == {<<>>, <<"<", "b", ">", "&">>}
MLegends ==
    {NoLegend} \cup
    {[present |-> TRUE, entries |-> es] :
        es \in {e \in SeqsUpTo([key : MKeys, label : MLabels], MaxLegend) :
                   \A k, l \in 1..Len(e) : k /= l => e[k].key /= e[l].key}}

\* the widget as InitCompose leaves it
WidgetIdle ==
    /\ minWords = 0
    /\ maxAttempts = 1
    /\ attemptsUsed = 0
    /\ attemptsShown = 0
    /\ text = <<>>
    /\ counts = updateCounts(<<>>)
    /\ loading = FALSE
    /\ submitDisabled = FALSE
    /\ submitLabel = LabelSubmit
    /\ feedback = NoFeedback
    /\ shown = <<>>
    /\ pending = <<>>
    /\ maxReachedShown = FALSE

ComposeIdle ==
    /\ cText = <<>>
    /\ cInput = <<>>
    /\ cSpans = <<>>
    /\ cI = 0
    /\ cCursor = 0
    /\ cResult = <<>>
    /\ cPc = "off"

LegendIdle == lLegend = NoLegend /\ lHtml = <<>> /\ lPc = "off"

ScoreIdle == sResult = NoScoreResult /\ sScore = NoScore /\ sPc = "off"

\* one call of buildHighlightedHtml, or one call of renderLegend
InitMarkup ==
    /\ mode = "practice"
    /\ showScoreInExam = FALSE
    /\ WidgetIdle
    /\ ScoreIdle
    /\ \/ /\ cText \in MTexts
          /\ cInput \in MSpanLists
          /\ cSpans = <<>>
          /\ cI = 0
          /\ cCursor = 0
          /\ cResult = <<>>
          /\ cPc = "start"
          /\ LegendIdle
       \/ /\ ComposeIdle
          /\ lLegend \in MLegends
          /\ lHtml = <<>>
          /\ lPc = "start"

\* renderLegend(legend), lines 178-199
RenderLegend ==
    /\ lPc = "start"
    /\ lHtml' = renderLegend(lLegend)
    /\ lPc' = "done"
    /\ UNCHANGED <<lLegend, ctlVars, cmpVars, scrVars>>

NextMarkup == Begin \/ Loop \/ Finish \/ RenderLegend

SpecMarkup == InitMarkup /\ [][NextMarkup]_vars

----------------------------------------------------------------------------
(* The score element of renderSuccess *)

RawValues == {0, 7}
NormalizedValues == {0, 125, 500, 1000}   \* 0, 0.125, 0.5 and 1
ScaleMaxValues == {0, 10}

ScoreResults ==
    [mode : {"", "practice", "exam"},
     score : [raw : Opt(RawValues), normalized : Opt(NormalizedValues),
              scale_max : Opt(ScaleMaxValues)]]

InitScore ==
    /\ mode \in {"practice", "exam"}
    /\ showScoreInExam \in BOOLEAN
    /\ WidgetIdle
    /\ ComposeIdle
    /\ LegendIdle
    /\ sResult \in ScoreResults
    /\ sScore = NoScore
    /\ sPc = "start"

\* renderSuccess, lines 208-239
RenderScore ==
    /\ sPc = "start"
    /\ sScore' = scoreSection(sResult)
    /\ sPc' = "done"
    /\ UNCHANGED <<sResult, ctlVars, cmpVars, lgdVars>>

NextScore == RenderScore

SpecScore == InitScore /\ [][NextScore]_vars

----------------------------------------------------------------------------
(* Properties of buildHighlightedHtml *)

RECURSIVE Concat(_)
Concat(runs) == IF runs = <<>> THEN <<>> ELSE Head(runs).chunk \o Concat(Tail(runs))

\* the highlighted chunks, in output order
Highlighted(runs) == SelectSeq(runs, LAMBDA r : r.kind = "span")

\* the input indices in the order a stable sort by key puts them
IsStableOrder(p, key(_), n) ==
    /\ \A k, l \in 1..n : k /= l => p[k] /= p[l]
    /\ \A k, l \in 1..n :
          k < l => \/ key(p[k]) < key(p[l])
                   \/ key(p[k]) = key(p[l]) /\ p[k] < p[l]

RawStart(i) == cInput[i].start
ClampedStart(i) == Min(Max(cInput[i].start, 0), Len(cText))

\* the highlighted chunks are those of the input spans taken in the order p
HighlightsFollow(p) ==
    /\ Len(Highlighted(cResult)) = Len(cInput)
    /\ \A k \in 1..Len(cInput) :
          LET h == Highlighted(cResult)[k]
              c == cInput[p[k]]
          IN  /\ h.from = Min(Max(c.start, 0), Len(cText))
              /\ h.to = Min(Max(c.end, h.from), Len(cText))
              /\ h.type = c.type
              /\ h.msg = c.msg

Looped == cPc = "done" /\ cText /= <<>> /\ cInput /= <<>>

\* two spans share a character
Overlap(a, b) == Max(a.start, b.start) < Min(a.end, b.end)

WellFormed(spans, t) ==
    /\ \A i \in 1..Len(spans) :
          0 <= spans[i].start /\ spans[i].start <= spans[i].end
                              /\ spans[i].end <= Len(t)
    /\ \A i, j \in 1..Len(spans) : i /= j => ~Overlap(spans[i], spans[j])

\* C1: whatever the spans, the chunks put out cover the text exactly once:
\* concatenated in output order they are the text.
C1_CoversTextOnce == cPc = "done" => Concat(cResult) = cText

\* C8: the highlighted chunks come in the order of a stable sort of the spans
\* by their start clamped into [0, len(text)].
C8_StableByClampedStart ==
    Looped =>
        \E p \in [1..Len(cInput) -> 1..Len(cInput)] :
            IsStableOrder(p, ClampedStart, Len(cInput)) /\ HighlightsFollow(p)

\* C8 (amended): the highlighted chunks come in the order of a stable sort of
\* the spans by their start as given (before any clamping): spans with equal
\* given starts keep their input order, and a span with a smaller given start
\* comes first even when both starts clamp to the same index.
C8_StableByGivenStart ==
    Looped =>
        \E p \in [1..Len(cInput) -> 1..Len(cInput)] :
            IsStableOrder(p, RawStart, Len(cInput)) /\ HighlightsFollow(p)

\* two spans with the same given start and different ends, the one given
\* first reaching further, have been put out
C8_Witness ==
    /\ Looped
    /\ Len(cInput) >= 2
    /\ cInput[1].start = cInput[2].start
    /\ cInput[1].end > cInput[2].end
    /\ Highlighted(cResult)[1].to > Highlighted(cResult)[2].to

\* C9: every chunk is a slice [from, to) of the text with
\* 0 <= from <= to <= len(text), and a span whose end is before its start
\* gives an empty highlighted chunk at its clamped start.
C9_RunsWithinText ==
    /\ \A k \in 1..Len(cResult) :
          LET r == cResult[k]
          IN  /\ 0 <= r.from /\ r.from <= r.to /\ r.to <= Len(cText)
              /\ r.chunk = SubSeq(cText, r.from + 1, r.to)
    /\ cPc \in {"loop", "done"} =>
          \A k \in 1..Len(Highlighted(cResult)) :
              LET h == Highlighted(cResult)[k]
                  c == cSpans[k]
              IN  c.end < c.start =>
                     /\ h.from = Min(Max(c.start, 0), Len(cText))
                     /\ h.to = h.from
                     /\ h.chunk = <<>>

\* a span that starts behind the text and ends before its start has been put
\* out as an empty chunk at the end of the text
C9_Witness ==
    /\ Looped
    /\ \E k \in 1..Len(cSpans) :
          /\ cSpans[k].start > Len(cText)
          /\ cSpans[k].end < cSpans[k].start
          /\ Highlighted(cResult)[k].from = Len(cText)
          /\ Highlighted(cResult)[k].to = Len(cText)

\* C10: for spans that lie within the text, end not before start, no two
\* sharing a character, the chunks concatenated in output order are the text.
C10_WellFormedRoundTrip ==
    (cPc = "done" /\ WellFormed(cInput, cText)) => Concat(cResult) = cText

----------------------------------------------------------------------------
(* Properties of the widget: errors, validation and the attempt counter *)

\* a text of nothing but spaces
Blank(t) == \A k \in 1..Len(t) : t[k] = " "

\* C11: for a response that is not ok, the message shown is the backend's own
\* when it carries one; without one, the retry hint for code BACKEND_TIMEOUT
\* and the generic text for any other or no code.
C11_ErrorMessageSelection ==
    \A i \in Handled :
        pending[i].outcome = "notok" =>
            LET err == pending[i].result.error
            IN  feedback = [kind |-> "error",
                            msg |-> IF err.message /= "" THEN err.message
                                    ELSE IF err.code = CodeTimeout THEN MsgTimeout
                                    ELSE MsgGeneric,
                            sections |-> {}]

\* C13: a click on a text that is empty or all spaces shows the validation
\* error and does nothing else: no request, no loading state, the label, the
\* attempt counter and the enabled state of the submit control as before.
C13_EmptyTextRejected ==
    [][(Click /\ Blank(text)) =>
          /\ feedback' = [kind |-> "error", msg |-> MsgEmpty, sections |-> {}]
          /\ pending' = pending
          /\ loading' = loading
          /\ submitLabel' = submitLabel
          /\ submitDisabled' = submitDisabled
          /\ attemptsUsed' = attemptsUsed
          /\ attemptsShown' = attemptsShown]_vars

\* a click on a text of one space has been rejected while attempts remain
C13_Witness ==
    /\ text = <<" ">>
    /\ feedback = [kind |-> "error", msg |-> MsgEmpty, sections |-> {}]
    /\ attemptsUsed < maxAttempts
    /\ pending = <<>>
    /\ ~submitDisabled

\* C14: with min_words set, a click on a non-blank text of fewer words, while
\* attempts remain, leaves the "too short" warning for the user to see and
\* sends the request.
C14_TooShortWarningShown ==
    [][(Click /\ ~Blank(text) /\ minWords /= 0 /\ countWords(text) < minWords
              /\ attemptsUsed < maxAttempts) =>
          /\ Len(pending') = Len(pending) + 1
          /\ feedback' = [kind |-> "error", msg |-> MsgTooShort, sections |-> {}]]_vars

\* C15: once a success response has been processed, the client's attempts_used
\* is the attempts_used of that response, whatever that value is, 0 included.
C15_AttemptsFromResponse ==
    \A i \in Handled :
        pending[i].outcome = "ok" =>
            /\ attemptsUsed = pending[i].result.attempts_used
            /\ attemptsShown = pending[i].result.attempts_used

\* C20: whenever no request is outstanding and the submit control is disabled,
\* an error with code MAX_ATTEMPTS_REACHED has been presented before; after a
\* validation error, another backend error or a transport failure the control
\* is not left disabled.
C20_DisabledOnlyForMaxAttempts ==
    /\ (pending = <<>> /\ submitDisabled) => maxReachedShown
    /\ (pending = <<>> /\ feedback.kind = "error"
                       /\ feedback.msg \in {MsgEmpty, MsgNetwork} /\ ~maxReachedShown)
          => ~submitDisabled

\* the attempt guard has left the control disabled, no request outstanding
C20_Witness ==
    /\ pending = <<>>
    /\ submitDisabled
    /\ maxReachedShown
    /\ feedback = [kind |-> "error", msg |-> MsgMaxLocal, sections |-> {}]

----------------------------------------------------------------------------
(* Properties of the markup and of the score element *)

Entities == {Amp, Lt, Gt, Quot, Apos}

CharOf(e) ==
    CASE e = Amp -> "&" [] e = Lt -> "<" [] e = Gt -> ">"
      [] e = Quot -> "\"" [] e = Apos -> "'"

StartsWith(s, e) == Len(s) >= Len(e) /\ SubSeq(s, 1, Len(e)) = e
Drop(s, n) == SubSeq(s, n + 1, Len(s))

\* what a browser reads from s: every entity replaced by its character, once
RECURSIVE Unescape(_)
Unescape(s) ==
    IF s = <<>> THEN <<>>
    ELSE IF \E e \in Entities : StartsWith(s, e)
    THEN LET e == CHOOSE x \in Entities : StartsWith(s, x)
         IN  <<CharOf(e)>> \o Unescape(Drop(s, Len(e)))
    ELSE <<Head(s)>> \o Unescape(Tail(s))

\* s holds none of chars, and no & that does not begin an entity
NoRawOf(s, chars) ==
    \A k \in 1..Len(s) :
        /\ s[k] \notin chars
        /\ s[k] = "&" => \E e \in Entities : StartsWith(Drop(s, k - 1), e)

\* out is orig escaped, and escaped once
EscapedOnce(out, orig) ==
    NoRawOf(out, {"<", ">", "\"", "'"}) /\ Unescape(out) = orig

\* C16: every chunk put out, plain or highlighted, is a slice of the text
\* escaped exactly once, and the data-message and title attributes of a
\* highlighted chunk hold the message of its span escaped exactly once: no
\* <, >, ", ' and no & other than the first character of an entity.
C16_TextAndMessageEscaped ==
    /\ \A k \in 1..Len(cResult) :
          LET r == cResult[k]
          IN  /\ r.chunk = SubSeq(cText, r.from + 1, r.to)
              /\ EscapedOnce(r.html, r.chunk)
    /\ cPc \in {"loop", "done"} =>
          \A k \in 1..Len(Highlighted(cResult)) :
              LET h == Highlighted(cResult)[k]
              IN  /\ h.msg = cSpans[k].msg
                  /\ h.msg /= <<>> => /\ EscapedOnce(h.dataMessage, h.msg)
                                      /\ EscapedOnce(h.title, h.msg)

\* the text "<" has been put out as a highlighted chunk whose message holds
\* all five characters and an entity
C16_Witness ==
    /\ cPc = "done"
    /\ cText = <<"<">>
    /\ \E k \in 1..Len(cResult) :
          /\ cResult[k].kind = "span"
          /\ cResult[k].html = Lt
          /\ cResult[k].msg = <<"&", "l", "t", ";", "<", ">", "\"", "'">>
          /\ cResult[k].title = Amp \o <<"l", "t", ";">> \o Lt \o Gt \o Quot \o Apos

\* C17: without spans the output is one plain chunk, the whole text escaped,
\* and no highlighted chunk; for the empty text it is the empty-text marker
\* alone, whatever the spans.
C17_NoSpansOrNoText ==
    cPc = "done" =>
        /\ cText = <<>> => Len(cResult) = 1 /\ cResult[1].kind = "empty"
        /\ (cText /= <<>> /\ cInput = <<>>) =>
              /\ Len(cResult) = 1
              /\ cResult[1].kind = "plain"
              /\ cResult[1].chunk = cText
              /\ EscapedOnce(cResult[1].html, cText)
              /\ Highlighted(cResult) = <<>>

\* the empty text has been given with spans, and the marker put out
C17_Witness ==
    /\ cPc = "done"
    /\ cText = <<>>
    /\ cInput /= <<>>
    /\ cResult = <<EmptyMarker>>

\* C19: no fragment of the markup that comes from the backend holds ", <, >
\* or an & that does not begin an entity: chunks, message attributes, the
\* class built from the span type, and the classes and the label of a legend
\* entry.
C19_EveryFragmentEscaped ==
    /\ \A k \in 1..Len(cResult) :
          /\ NoRawOf(cResult[k].html, {"<", ">", "\""})
          /\ NoRawOf(cResult[k].dataMessage, {"<", ">", "\""})
          /\ NoRawOf(cResult[k].title, {"<", ">", "\""})
          /\ NoRawOf(cResult[k].cssClass, {"<", ">", "\""})
    /\ \A k \in 1..Len(lHtml) :
          /\ NoRawOf(lHtml[k].label, {"<", ">", "\""})
          /\ NoRawOf(lHtml[k].cssClass, {"<", ">", "\""})
          /\ NoRawOf(lHtml[k].color, {"<", ">", "\""})

\* C12: the text of the score element is "Score: raw", with " / scale_max"
\* behind it when scale_max is present, if raw is present; else
\* "Score: p%" with p the percentage nearest to normalized (halves up) if
\* normalized is present; else "Score available."; with raw present it is the
\* same whatever normalized is.
C12_ScoreTextPrecedence ==
    (sPc = "done" /\ sScore /= <<>>) =>
        LET sc == sResult.score
            t == sScore[1]
        IN  /\ Len(sScore) = 1
            /\ (sc.raw /= <<>> /\ sc.scale_max /= <<>>) =>
                  t = <<"Score: ", ToString(sc.raw[1]), " / ", ToString(sc.scale_max[1])>>
            /\ (sc.raw /= <<>> /\ sc.scale_max = <<>>) =>
                  t = <<"Score: ", ToString(sc.raw[1])>>
            /\ (sc.raw = <<>> /\ sc.normalized /= <<>>) =>
                  \E p \in 0..100 :
                      /\ 10 * p - 5 <= sc.normalized[1]
                      /\ sc.normalized[1] < 10 * p + 5
                      /\ t = <<"Score: ", ToString(p), "%">>
            /\ (sc.raw = <<>> /\ sc.normalized = <<>>) => t = <<"Score available.">>
            /\ sc.raw /= <<>> =>
                  \A n \in Opt(NormalizedValues) :
                      scoreText([sc EXCEPT !.normalized = n]) = t

\* a score with raw 7 and normalized 0.5 has been rendered as "Score: 7"
C12_Witness ==
    /\ sPc = "done"
    /\ sResult.score = [raw |-> <<7>>, normalized |-> <<500>>, scale_max |-> <<>>]
    /\ sScore = << <<"Score: ", "7">> >>

\* C18: in the practice view the "no issues" notice is there exactly when the
\* compositor put out no highlighted chunk for the submitted text, and then
\* there is no legend; a legend is there only with a highlighted chunk, and
\* it has an entry.
C18_NoIssuesOrLegend ==
    \A i \in Handled :
        (pending[i].outcome = "ok" /\ "essay" \in feedback.sections) =>
            LET runs == Highlighted(buildHighlightedHtml(pending[i].text,
                                                         spansOf(pending[i].result)))
            IN  /\ "noissues" \in feedback.sections <=> runs = <<>>
                /\ "noissues" \in feedback.sections => "legend" \notin feedback.sections
                /\ "legend" \in feedback.sections =>
                      runs /= <<>> /\ "legenditem" \in feedback.sections

----------------------------------------------------------------------------
(* Properties of the widget: what changes the attempt counter *)

\* the step runs the done callback of request i on a success response
HandlesSuccess(i) ==
    /\ i \in 1..Len(pending)
    /\ Len(pending') = Len(pending)
    /\ pending[i].stage = "sent"
    /\ pending'[i].stage = "handled"
    /\ pending'[i].outcome = "ok"

\* C21: attempts_used and its display change only in a step that processes a
\* success response; a submit click (rejected for an empty text, rejected by
\* the attempt guard, or dispatched), a change of the text, a cut or paste, a
\* transport failure, an error response and the cleanup leave them as they
\* are, so a dispatch never counts an attempt by itself.
C21_OnlyResponsesChangeAttempts ==
    [][(attemptsUsed' /= attemptsUsed \/ attemptsShown' /= attemptsShown) =>
          \E i \in 1..Len(pending) : HandlesSuccess(i)]_vars

\* with one attempt used of three, a request has been dispatched, its
\* transport has failed, and the counter still reads one
C21_Witness ==
    /\ \E i \in Handled : pending[i].outcome = "fail"
    /\ maxAttempts = 3
    /\ attemptsUsed = 1
    /\ attemptsShown = 1
    /\ feedback = [kind |-> "error", msg |-> MsgNetwork, sections |-> {}]

====
